---- MODULE Spec2Model ----
(***************************************************************************)
(* Model of loralib/utils.py: mark_only_lora_as_trainable and              *)
(* lora_state_dict.                                                        *)
(*                                                                         *)
(* Parameter names are sequences of one-character strings, so that the     *)
(* substring tests ('lora_' in n, 'bias' in n) and k.split('lora_')[0] are *)
(* computed on characters, as Python computes them.                        *)
(*                                                                         *)
(* The module graph is a set of submodules, each identified by the prefix  *)
(* its parameters get in named_parameters() / state_dict().  Every         *)
(* parameter is owned by exactly one submodule (no tied parameters), so    *)
(* dotted names are unique.                                                *)
(***************************************************************************)
EXTENDS Integers, Sequences, FiniteSets

VARIABLES
  modules,        \* the module graph: prefix -> submodule
  requires_grad,  \* dotted parameter name -> its requires_grad flag
  lastOp,         \* the function called last: "init" (none yet), "mark", "sd"
  lastBias,       \* the bias argument of that call
  outcome,        \* "idle", "returned" or "raised"
  to_return,      \* the dict lora_state_dict returned
  repeated,       \* the call repeats the successful call before it
  changed         \* the call changed some requires_grad flag

vars == <<modules, requires_grad, lastOp, lastBias, outcome, to_return, repeated,
          changed>>

----------------------------------------------------------------------------
(* Bounds *)

\* largest number of parameter-owning submodules in a graph
MaxModules == 2

----------------------------------------------------------------------------
(* Strings *)

LORA == <<"l", "o", "r", "a", "_">>
BIAS == <<"b", "i", "a", "s">>

\* Python: sub in s
Contains(sub, s) ==
  \E i \in 0..(Len(s) - Len(sub)) : SubSeq(s, i + 1, i + Len(sub)) = sub

\* Python: s.split(sep)[0], the part of s before the first occurrence of sep
\* (all of s when sep does not occur)
SplitFirst(s, sep) ==
  IF Contains(sep, s)
  THEN LET i == CHOOSE j \in 0..(Len(s) - Len(sep)) :
                  /\ SubSeq(s, j + 1, j + Len(sep)) = sep
                  /\ \A h \in 0..(j - 1) : SubSeq(s, h + 1, h + Len(sep)) # sep
       IN SubSeq(s, 1, i)
  ELSE s

\* variant: the prefix before the last occurrence of "lora_" (rsplit)
BiasNameLast(k) ==
  IF Contains(LORA, k)
  THEN LET i == CHOOSE j \in 0..(Len(k) - Len(LORA)) :
                  /\ SubSeq(k, j + 1, j + Len(LORA)) = LORA
                  /\ \A h \in (j + 1)..(Len(k) - Len(LORA)) :
                       SubSeq(k, h + 1, h + Len(LORA)) # LORA
       IN SubSeq(k, 1, i) \o BIAS
  ELSE k \o BIAS

\* bias_name = k.split('lora_')[0] + 'bias'
BiasName(k) == SplitFirst(k, LORA) \o BIAS

----------------------------------------------------------------------------
(* Inputs: module graphs and bias arguments *)

\* prefixes of the submodules: the root module, a child "a", a child "lora_m"
Prefixes == { << >>, <<"a", ".">>, <<"l", "o", "r", "a", "_", "m", ".">> }

\* attribute names of parameters other than the attribute 'bias'
WEIGHT == <<"w", "e", "i", "g", "h", "t">>
LORA_A == <<"l", "o", "r", "a", "_", "A">>
BIAS_K == <<"b", "i", "a", "s", "_", "k">>

ParamSets == { {}, {WEIGHT}, {LORA_A}, {LORA_A, BIAS_K} }

\* bias: "absent" = no attribute 'bias', "None" = attribute set to None,
\* "param" = a registered parameter
\* lora: isinstance(m, LoRALayer)
ModuleKinds == [lora : BOOLEAN, bias : {"absent", "None", "param"}, params : ParamSets]

\* the root module is a plain container that may own a bias
RootKinds == [lora : {FALSE}, bias : {"absent", "param"}, params : {{}}]

KindsOf(p) == IF p = << >> THEN RootKinds ELSE ModuleKinds

Graphs ==
  UNION { { g \in [ps -> ModuleKinds \cup RootKinds] : \A p \in ps : g[p] \in KindsOf(p) } :
            ps \in { s \in SUBSET Prefixes : Cardinality(s) <= MaxModules } }

\* the three recognised values and one that is not
BiasArgs == {"none", "all", "lora_only", "lora"}

\* the empty dict
EmptyDict == << >>

\* model.named_parameters(): the dotted names
named_parameters(g) ==
  { p \o BIAS : p \in { q \in DOMAIN g : g[q].bias = "param" } }
    \cup UNION { { p \o l : l \in g[p].params } : p \in DOMAIN g }

\* model.modules()
ModulesOf(g) == DOMAIN g

\* model.state_dict(): name -> the tensor of that parameter; a tensor is
\* identified by the parameter it belongs to
state_dict(g) == [n \in named_parameters(g) |-> <<"tensor", n>>]

----------------------------------------------------------------------------
(* mark_only_lora_as_trainable *)

\* variant: every parameter is disabled, "lora_" or not
DisableBaseAll(rg) == [n \in DOMAIN rg |-> FALSE]

\* variant: the flag of a parameter without "lora_" is inverted
DisableBaseFlip(rg) ==
  [n \in DOMAIN rg |-> IF ~Contains(LORA, n) THEN ~rg[n] ELSE rg[n]]

\* lines 28-31: for n, p in named_parameters: if 'lora_' not in n: p.requires_grad = False
DisableBase(rg) ==
  [n \in DOMAIN rg |-> IF ~Contains(LORA, n) THEN FALSE ELSE rg[n]]

\* variant: only names that end in "bias" (n.endswith('bias'))
EnableAllBiasSuffix(rg) ==
  [n \in DOMAIN rg |->
     IF Len(n) >= Len(BIAS) /\ SubSeq(n, Len(n) - Len(BIAS) + 1, Len(n)) = BIAS
     THEN TRUE
     ELSE rg[n]]

\* lines 39-41: for n, p in named_parameters: if 'bias' in n: p.requires_grad = True
EnableAllBias(rg) ==
  [n \in DOMAIN rg |-> IF Contains(BIAS, n) THEN TRUE ELSE rg[n]]

\* variant: without the isinstance(m, LoRALayer) test
EnableLoraBiasAnyModule(g, rg) ==
  [n \in DOMAIN rg |->
     IF \E m \in DOMAIN g :
          /\ g[m].bias # "absent"
          /\ g[m].bias # "None"
          /\ n = m \o BIAS
     THEN TRUE
     ELSE rg[n]]

\* lines 44-48: for m in modules: if isinstance(m, LoRALayer) and
\* hasattr(m, 'bias') and m.bias is not None: m.bias.requires_grad = True
EnableLoraBias(g, rg) ==
  [n \in DOMAIN rg |->
     IF \E m \in ModulesOf(g) :
          /\ g[m].lora
          /\ g[m].bias # "absent"
          /\ g[m].bias # "None"
          /\ n = m \o BIAS
     THEN TRUE
     ELSE rg[n]]

\* variant: the bias argument is validated before any flag is touched
MarkFlagsValidateFirst(g, rg, bias) ==
  IF ~(bias = "none" \/ bias = "all" \/ bias = "lora_only") THEN rg
  ELSE LET base == DisableBase(rg)
       IN IF bias = "none" THEN base
          ELSE IF bias = "all" THEN EnableAllBias(base)
          ELSE EnableLoraBias(g, base)

\* the flags the call leaves behind
MarkFlags(g, rg, bias) ==
  LET base == DisableBase(rg)
  IN IF bias = "none" THEN base
     ELSE IF bias = "all" THEN EnableAllBias(base)
     ELSE IF bias = "lora_only" THEN EnableLoraBias(g, base)
     ELSE base

\* whether the call ends in raise NotImplementedError (line 51)
MarkRaises(bias) ==
  ~(bias = "none" \/ bias = "all" \/ bias = "lora_only")

mark_only_lora_as_trainable(bias) ==
  /\ requires_grad' = MarkFlags(modules, requires_grad, bias)
  /\ outcome' = IF MarkRaises(bias) THEN "raised" ELSE "returned"
  /\ lastOp' = "mark"
  /\ lastBias' = bias
  /\ repeated' = (lastOp = "mark" /\ lastBias = bias /\ outcome = "returned")
  /\ changed' = (requires_grad' # requires_grad)
  /\ to_return' = EmptyDict
  /\ UNCHANGED modules

----------------------------------------------------------------------------
(* lora_state_dict *)

\* d[k] = v
Put(d, k, v) == [x \in DOMAIN d \cup {k} |-> IF x = k THEN v ELSE d[x]]

\* variant: the 'none' filter also keeps the bias keys
FilterNoneWithBias(sd) ==
  [k \in { x \in DOMAIN sd : Contains(LORA, x) \/ Contains(BIAS, x) } |-> sd[k]]

\* line 74
FilterNone(sd) ==
  [k \in { x \in DOMAIN sd : Contains(LORA, x) } |-> sd[k]]

\* variant: 'and' in place of 'or'
FilterAllAnd(sd) ==
  [k \in { x \in DOMAIN sd : Contains(LORA, x) /\ Contains(BIAS, x) } |-> sd[k]]

\* line 77
FilterAll(sd) ==
  [k \in { x \in DOMAIN sd : Contains(LORA, x) \/ Contains(BIAS, x) } |-> sd[k]]

\* variant: the derived key is stored without the membership test
LoraOnlyStepNoTest(sd, acc, k) ==
  IF Contains(LORA, k)
  THEN Put(Put(acc, k, sd[k]), BiasName(k), sd[k])
  ELSE acc

\* lines 82-86, the body of the loop for one key k
LoraOnlyStep(sd, acc, k) ==
  IF Contains(LORA, k)
  THEN LET acc1 == Put(acc, k, sd[k])
           bias_name == BiasName(k)
       IN IF bias_name \in DOMAIN sd
          THEN Put(acc1, bias_name, sd[bias_name])
          ELSE acc1
  ELSE acc

\* lines 80-87: for k in my_state_dict, over the keys not visited yet
RECURSIVE LoraOnlyLoop(_, _, _)
LoraOnlyLoop(sd, keys, acc) ==
  IF keys = {} THEN acc
  ELSE LET k == CHOOSE x \in keys : TRUE
       IN LoraOnlyLoop(sd, keys \ {k}, LoraOnlyStep(sd, acc, k))

FilterLoraOnly(sd) == LoraOnlyLoop(sd, DOMAIN sd, EmptyDict)

\* variant: an unknown value falls through without an error
StateDictRaisesFallThrough(bias) == FALSE

\* whether the call ends in raise NotImplementedError (line 90)
StateDictRaises(bias) ==
  ~(bias = "none" \/ bias = "all" \/ bias = "lora_only")

\* the dict the call returns (the empty dict stands in when it raises)
StateDictResult(sd, bias) ==
  IF bias = "none" THEN FilterNone(sd)
  ELSE IF bias = "all" THEN FilterAll(sd)
  ELSE IF bias = "lora_only" THEN FilterLoraOnly(sd)
  ELSE EmptyDict

lora_state_dict(bias) ==
  LET my_state_dict == state_dict(modules)
  IN /\ to_return' = StateDictResult(my_state_dict, bias)
     /\ outcome' = IF StateDictRaises(bias) THEN "raised" ELSE "returned"
     /\ lastOp' = "sd"
     /\ lastBias' = bias
     /\ repeated' = FALSE
     /\ changed' = FALSE
     /\ UNCHANGED <<modules, requires_grad>>

----------------------------------------------------------------------------
(* Specification *)

Init ==
  /\ modules \in Graphs
  /\ requires_grad \in [named_parameters(modules) -> BOOLEAN]
  /\ lastOp = "init"
  /\ lastBias = "none"
  /\ outcome = "idle"
  /\ to_return = EmptyDict
  /\ repeated = FALSE
  /\ changed = FALSE

Mark == \E bias \in BiasArgs : mark_only_lora_as_trainable(bias)

StateDict == \E bias \in BiasArgs : lora_state_dict(bias)

Next == Mark \/ StateDict

Spec == Init /\ [][Next]_vars

----------------------------------------------------------------------------
(* Properties *)

\* the recognised values of the bias argument
Recognised == {"none", "all", "lora_only"}

HasLora(n) == Contains(LORA, n)
HasBias(n) == Contains(BIAS, n)

\* n is the bias of a LoRALayer submodule whose bias is a parameter
IsLoraLayerBias(n) ==
  \E m \in DOMAIN modules :
    modules[m].lora /\ modules[m].bias = "param" /\ n = m \o BIAS

\* d is the key derived from k: the shortest prefix of k that is followed by
\* "lora_", with "bias" appended
IsDerivedFrom(d, k) ==
  \E i \in 0..Len(k) :
    /\ i + Len(LORA) <= Len(k)
    /\ SubSeq(k, i + 1, i + Len(LORA)) = LORA
    /\ \A h \in 0..(i - 1) : SubSeq(k, h + 1, h + Len(LORA)) # LORA
    /\ d = SubSeq(k, 1, i) \o BIAS

\* C1: a call with a bias value other than 'none', 'all', 'lora_only' ends in
\* NotImplementedError, for both functions, and lora_state_dict then returns
\* no mapping; a call with one of the three values does not raise.
C1_UnsupportedRaises ==
  lastOp \in {"mark", "sd"} =>
    /\ outcome \in {"raised", "returned"}
    /\ (outcome = "raised") <=> (lastBias \notin Recognised)
    /\ (lastOp = "sd" /\ lastBias \notin Recognised) =>
         (outcome # "returned" /\ to_return = EmptyDict)

C1_Witness ==
  /\ lastOp = "sd"
  /\ lastBias = "lora"
  /\ outcome = "raised"
  /\ \E k \in DOMAIN state_dict(modules) : HasLora(k)

\* C2: mark_only_lora_as_trainable(g, 'none') leaves every parameter without
\* "lora_" in its name with requires_grad = False and every parameter with
\* "lora_" in its name with the flag it had before the call.
C2_NoneFreezesBase ==
  [][(lastOp' = "mark" /\ lastBias' = "none") =>
       /\ outcome' = "returned"
       /\ DOMAIN requires_grad' = DOMAIN requires_grad
       /\ \A n \in DOMAIN requires_grad :
            /\ ~HasLora(n) => requires_grad'[n] = FALSE
            /\ HasLora(n) => requires_grad'[n] = requires_grad[n]]_vars

C2_Witness ==
  /\ lastOp = "mark"
  /\ lastBias = "none"
  /\ outcome = "returned"
  /\ changed
  /\ \E n \in DOMAIN requires_grad : HasLora(n) /\ requires_grad[n]
  /\ \E n \in DOMAIN requires_grad : HasLora(n) /\ ~requires_grad[n]
  /\ \E n \in DOMAIN requires_grad : ~HasLora(n) /\ HasBias(n)

\* C3: after mark_only_lora_as_trainable(g, 'lora_only') every bias that is a
\* parameter of a LoRALayer submodule is trainable, and among the parameters
\* without "lora_" in their names those biases are the only trainable ones.
C3_LoraOnlyBiases ==
  (lastOp = "mark" /\ lastBias = "lora_only") =>
    /\ outcome = "returned"
    /\ \A n \in DOMAIN requires_grad :
         /\ IsLoraLayerBias(n) => requires_grad[n]
         /\ ~HasLora(n) => (requires_grad[n] <=> IsLoraLayerBias(n))

C3_Witness ==
  /\ lastOp = "mark"
  /\ lastBias = "lora_only"
  /\ changed
  /\ \E n \in DOMAIN requires_grad :
       ~HasLora(n) /\ IsLoraLayerBias(n) /\ requires_grad[n]
  /\ \E m \in DOMAIN modules :
       /\ ~modules[m].lora
       /\ modules[m].bias = "param"
       /\ ~HasLora(m \o BIAS)
       /\ ~requires_grad[m \o BIAS]
  /\ \E n \in DOMAIN requires_grad :
       ~HasLora(n) /\ HasBias(n) /\ ~IsLoraLayerBias(n) /\ ~requires_grad[n]

C5_LoraOnlyKeys ==
  (lastOp = "sd" /\ lastBias = "lora_only") =>
    LET s == state_dict(modules)
        loraKeys == { k \in DOMAIN s : HasLora(k) }
        derived == { d \in DOMAIN s : \E k \in loraKeys : IsDerivedFrom(d, k) }
    IN /\ outcome = "returned"
       /\ DOMAIN to_return = loraKeys \cup derived
       /\ \A k \in DOMAIN to_return : to_return[k] = s[k]

C5_Witness ==
  /\ lastOp = "sd"
  /\ lastBias = "lora_only"
  /\ \E d \in DOMAIN to_return : ~HasLora(d)
  /\ \E k \in DOMAIN to_return :
       \E i \in 0..Len(k) : /\ IsDerivedFrom(SubSeq(k, 1, i) \o BIAS, k)
                              /\ SubSeq(k, 1, i) \o BIAS \notin DOMAIN state_dict(modules)
  /\ \E b \in DOMAIN state_dict(modules) : HasBias(b) /\ b \notin DOMAIN to_return

\* C6: lora_state_dict(model, 'none') returns exactly the keys of the state
\* dict that contain "lora_", each with the value the state dict has for it.
C6_NoneKeys ==
  (lastOp = "sd" /\ lastBias = "none") =>
    LET s == state_dict(modules)
    IN /\ outcome = "returned"
       /\ DOMAIN to_return = { k \in DOMAIN s : HasLora(k) }
       /\ \A k \in DOMAIN to_return : to_return[k] = s[k]

C6_Witness ==
  /\ lastOp = "sd"
  /\ lastBias = "none"
  /\ to_return # EmptyDict
  /\ \E b \in DOMAIN state_dict(modules) : HasBias(b) /\ b \notin DOMAIN to_return

C8_Idempotent ==
  [][(/\ lastOp = "mark"
      /\ outcome = "returned"
      /\ lastOp' = "mark"
      /\ lastBias' = lastBias) => requires_grad' = requires_grad]_vars

C8_Witness ==
  /\ lastOp = "mark"
  /\ lastBias = "lora_only"
  /\ repeated
  /\ \E n \in DOMAIN requires_grad : ~HasLora(n) /\ requires_grad[n]
  /\ \E n \in DOMAIN requires_grad : ~HasLora(n) /\ ~requires_grad[n]

\* C9: for a recognised bias value the dict lora_state_dict returns is a
\* sub-mapping of the state dict (every key is a key of the state dict and
\* has the state dict's value), and the state dict is the same after the
\* call as before.
C9_SubMapping ==
  [][(lastOp' = "sd" /\ lastBias' \in Recognised) =>
       LET s == state_dict(modules)
       IN /\ outcome' = "returned"
          /\ DOMAIN to_return' \subseteq DOMAIN s
          /\ \A k \in DOMAIN to_return' : to_return'[k] = s[k]
          /\ state_dict(modules') = s]_vars

C9_Witness ==
  /\ lastOp = "sd"
  /\ lastBias \in Recognised
  /\ to_return # EmptyDict
  /\ DOMAIN to_return # DOMAIN state_dict(modules)

\* C10: when mark_only_lora_as_trainable raises for an unrecognised bias
\* value, the base-disabling pass has been applied and stays applied: every
\* parameter without "lora_" in its name has requires_grad = False and every
\* parameter with "lora_" in its name has the flag it had before the call.
C10_RaisesAfterDisabling ==
  [][(lastOp' = "mark" /\ lastBias' \notin Recognised) =>
       /\ outcome' = "raised"
       /\ \A n \in DOMAIN requires_grad :
            /\ ~HasLora(n) => requires_grad'[n] = FALSE
            /\ HasLora(n) => requires_grad'[n] = requires_grad[n]]_vars

C10_Witness ==
  /\ lastOp = "mark"
  /\ outcome = "raised"
  /\ changed
  /\ \E n \in DOMAIN requires_grad : HasLora(n) /\ requires_grad[n]

====
